---- MODULE Spec2Model ----
(***************************************************************************)
(* Model of train() in train.py: the epoch / batch loop with warmup        *)
(* recomputation of the accumulation cadence, the optimizer gate, the      *)
(* running mean of the losses, the epoch scheduler cursor and the          *)
(* per-epoch checkpoint files.                                             *)
(*                                                                         *)
(* Numbers that are floats in the program (the warmup interpolation, the   *)
(* running mean) are exact rationals <<numerator, denominator>> here.      *)
(***************************************************************************)
EXTENDS Integers, Sequences, FiniteSets, TLC

\* ---------------------------------------------------------------- bounds
MaxB == 5          \* largest batches_per_epoch of the short runs
MaxE == 3          \* largest total_epochs of the short runs
LongB == 251       \* batches_per_epoch of the long runs (they leave warmup)
LongE == 5         \* total_epochs of the long runs (an epoch starts after
                   \* the warmup)

\* batch sizes tried: below, at and above the nominal batch size
BatchSizes == {1, 24, 32, 64, 128, 200}

\* loss component vectors the loss adapter may return
LossVectors == {<<0, 0, 0, 0>>, <<3, 1, 0, 4>>}
ZeroLoss == {<<0, 0, 0, 0>>}

\* ------------------------------------------------------- program constants
nbs == 64                    \* nominal batch size
start_epoch == 0
WarmFloor == 1000            \* the 1e3 of num_warm
WarmEpochs == 3              \* the 3 of num_warm
NumLoss == 4                 \* torch.zeros(4)
save_path == "output"
NoEpoch == -1                \* the loop variable before its first binding

VARIABLES
    total_epochs,     \* params["train_params"]["total_epochs"]
    batch_size,       \* params["train_params"]["batch_size"]
    batch_per_epoch,  \* len(dataloader)
    lossDom,          \* range of the loss adapter in this run
    pc,               \* position of train()
    epoch,            \* loop variable of the epoch loop
    batch_id,         \* loop variable of the batch loop
    num_iter,         \* batch_id + batch_per_epoch * epoch
    num_warm,         \* warmup length
    accumulate,       \* accumulate_every
    last_epoch,       \* scheduler.last_epoch
    lr,               \* x['lr'] of the optimizer's parameter group
    grad,             \* iterations whose gradients sit in .grad
    applied,          \* iterations whose gradients an optimizer step used
    discarded,        \* iterations whose gradients were cleared unused
    nsteps,           \* optimizer steps performed (version of the weights)
    loss_items,       \* loss components of the current batch
    mloss,            \* running mean losses, NumLoss rationals
    gated,            \* history: loss vectors folded into mloss this epoch
    files,            \* checkpoint files on disk: path -> checkpoint
    saves,            \* history: paths passed to torch.save, in order
    iters,            \* history: one record per batch that reached the gate
    raisedAt          \* <<epoch, batch>> where an adapter raised, or <<>>

vars == <<total_epochs, batch_size, batch_per_epoch, lossDom, pc, epoch,
          batch_id, num_iter, num_warm, accumulate, last_epoch, lr, grad,
          applied, discarded, nsteps, loss_items, mloss, gated, files,
          saves, iters, raisedAt>>

cfgVars == <<total_epochs, batch_size, batch_per_epoch, lossDom>>

\* ------------------------------------------------------------- arithmetic
Max(a, b) == IF a >= b THEN a ELSE b

RECURSIVE GCD(_, _)
GCD(a, b) == IF b = 0 THEN a ELSE GCD(b, a % b)

\* a rational <<n, d>> with d > 0, in lowest terms
Norm(r) ==
    LET g == GCD(IF r[1] < 0 THEN -r[1] ELSE r[1], r[2])
    IN  IF g = 0 THEN <<0, 1>> ELSE <<r[1] \div g, r[2] \div g>>

\* round(): Python 3 and numpy both round halves to the even neighbour
RoundHalfEven(r) ==
    LET fl  == r[1] \div r[2]
        rem == r[1] % r[2]
    IN  IF 2 * rem < r[2] THEN fl
        ELSE IF 2 * rem > r[2] THEN fl + 1
        ELSE IF fl % 2 = 0 THEN fl ELSE fl + 1

\* np.interp(x, [x0, x1], [f0, f1]) with rational f0, f1: clamped outside
\* [x0, x1], linear inside
Interp(x, x0, x1, f0, f1) ==
    IF x <= x0 THEN Norm(f0)
    ELSE IF x >= x1 THEN Norm(f1)
    ELSE Norm(<<f0[1] * f1[2] * (x1 - x0)
                  + (f1[1] * f0[2] - f0[1] * f1[2]) * (x - x0),
                f0[2] * f1[2] * (x1 - x0)>>)

\* str(n) for n >= 0
DigitChar == <<"0", "1", "2", "3", "4", "5", "6", "7", "8", "9">>

RECURSIVE Str(_)
Str(n) == IF n < 10 THEN DigitChar[n + 1]
          ELSE Str(n \div 10) \o DigitChar[(n % 10) + 1]

\* ------------------------------------------------ expressions of train()
\* num_warm = max(3*batch_per_epoch, 1e3)
NumWarm(bpe) == Max(WarmEpochs * bpe, WarmFloor)

\* the initial accumulate without its floor of 1
AccumulateInitNoFloor(bs) == RoundHalfEven(<<nbs, bs>>)

\* accumulate = max(round(nbs / batch_size), 1)
AccumulateInit(bs) == Max(RoundHalfEven(<<nbs, bs>>), 1)

\* a step counter that forgets the epochs already done
NumIterPerEpoch(b, bpe, e) == b

\* num_iter = batch_id + batch_per_epoch * epoch
NumIter(b, bpe, e) == b + bpe * e

\* the warmup interpolation with its end points swapped
AccumulateWarmupDown(ni, nw, bs) ==
    Max(1, RoundHalfEven(Interp(ni, 0, nw, <<nbs, bs>>, <<1, 1>>)))

\* the warmup interpolation aiming at nbs instead of nbs / batch_size
AccumulateWarmupNbs(ni, nw, bs) ==
    Max(1, RoundHalfEven(Interp(ni, 0, nw, <<1, 1>>, <<nbs, 1>>)))

\* accumulate = max(1, np.interp(num_iter, xi, [1, nbs / batch_size]).round())
AccumulateWarmup(ni, nw, bs) ==
    Max(1, RoundHalfEven(Interp(ni, 0, nw, <<1, 1>>, <<nbs, bs>>)))

\* if num_iter <= num_warm
InWarmup(ni, nw) == ni <= nw

\* a gate that is one iteration early
GateOffByOne(ni, acc) == (ni + 1) % acc = 0

\* if num_iter % accumulate == 0
Gate(ni, acc) == ni % acc = 0

\* mloss = (mloss * batch_id + loss_items) / (batch_id + 1)
MlossUpdate(m, b, l) ==
    [i \in 1..NumLoss |->
        Norm(<<m[i][1] * b + l[i] * m[i][2], m[i][2] * (b + 1)>>)]

\* torch.zeros(4)
MlossZero == [i \in 1..NumLoss |-> <<0, 1>>]

\* The learning rate is kept as the expression that produced it:
\* <<"lf", k>> is x['initial_lr'] * lf(k), and <<"warm", n, k>> is the
\* interpolation np.interp(n, [0, num_warm], [0.0, x['initial_lr'] * lf(k)])
\* at a step n before the end of the warmup.

\* x['lr'] = np.interp(num_iter, xi, [0.0, x['initial_lr'] * lf(epoch)])
LrWarmup(ni, nw, e) == IF ni >= nw THEN <<"lf", e>> ELSE <<"warm", ni, e>>

\* scheduler.step(): the rate becomes initial_lr * lf(last_epoch), with the
\* cursor it has just advanced to
LrScheduled(le) == <<"lf", le>>

\* a cursor initialised without the - 1
CursorInitNoOffset(se) == se

\* scheduler.last_epoch = start_epoch - 1
CursorInit(se) == se - 1

\* a checkpoint path that leaves the epoch out
CkptPathFixed(sp, e) == sp \o "/epoch_" \o ".pt"

\* save_path + "/epoch_" + str(epoch) + '.pt'
CkptPath(sp, e) == sp \o "/epoch_" \o Str(e) \o ".pt"

\* the last-epoch test without the + 1
CkptOptimizerOffByOne(e, te, st) == IF e = te THEN "None" ELSE st

\* 'optimizer': None if epoch+1==total_epochs else optimizer.state_dict()
CkptOptimizer(e, te, st) == IF e + 1 = te THEN "None" ELSE st

\* ckpt = {'epoch': ..., 'model': ..., 'optimizer': ...}
Ckpt(e, te, n) ==
    [epoch |-> e, model |-> n, optimizer |-> CkptOptimizer(e, te, "state")]

\* ------------------------------------------------------------------ Init
\* train() is entered: nothing is computed yet.  last_epoch = 0 is what the
\* LambdaLR constructor leaves (line 57) before line 67 overwrites it, and
\* the constructor has set the rate to initial_lr * lf(0).
InitRun ==
    /\ pc = "setup"
    /\ epoch = NoEpoch
    /\ batch_id = -1
    /\ num_iter = 0
    /\ num_warm = 0
    /\ accumulate = 0
    /\ last_epoch = 0
    /\ lr = LrScheduled(0)
    /\ grad = {}
    /\ applied = {}
    /\ discarded = {}
    /\ nsteps = 0
    /\ loss_items = <<0, 0, 0, 0>>
    /\ mloss = MlossZero
    /\ gated = <<>>
    /\ files = <<>>
    /\ saves = <<>>
    /\ iters = <<>>
    /\ raisedAt = <<>>

Init ==
    /\ total_epochs \in 0..MaxE
    /\ batch_size \in BatchSizes
    /\ batch_per_epoch \in 0..MaxB
    /\ lossDom = LossVectors
    /\ InitRun

InitLong ==
    /\ total_epochs \in {0, LongE}
    /\ batch_size \in BatchSizes
    /\ batch_per_epoch \in {0, LongB}
    /\ lossDom = ZeroLoss
    /\ InitRun

\* --------------------------------------------------------------- actions
\* lines 33-68: everything before the epoch loop
Setup ==
    /\ pc = "setup"
    /\ num_warm' = NumWarm(batch_per_epoch)
    /\ accumulate' = AccumulateInit(batch_size)
    /\ last_epoch' = CursorInit(start_epoch)
    /\ pc' = "epoch"
    /\ UNCHANGED <<cfgVars, lr, epoch, batch_id, num_iter, grad, applied,
                   discarded, nsteps, loss_items, mloss, gated, files,
                   saves, iters, raisedAt>>

\* lines 70-74: the next epoch of range(start_epoch, total_epochs) begins:
\* optimizer.zero_grad() and the reset of mloss
EpochBegin ==
    /\ pc = "epoch"
    /\ LET nxt == IF epoch = NoEpoch THEN start_epoch ELSE epoch + 1
       IN  /\ nxt < total_epochs
           /\ epoch' = nxt
    /\ discarded' = discarded \cup grad
    /\ grad' = {}
    /\ mloss' = MlossZero
    /\ gated' = <<>>
    /\ batch_id' = -1
    /\ pc' = "fetch"
    /\ UNCHANGED <<cfgVars, lr, num_iter, num_warm, accumulate, last_epoch,
                   applied, nsteps, loss_items, files, saves, iters,
                   raisedAt>>

\* line 70: range(start_epoch, total_epochs) is exhausted
EpochsExhausted ==
    /\ pc = "epoch"
    /\ (IF epoch = NoEpoch THEN start_epoch ELSE epoch + 1) >= total_epochs
    /\ pc' = "finalize"
    /\ UNCHANGED <<cfgVars, lr, epoch, batch_id, num_iter, num_warm, accumulate,
                   last_epoch, grad, applied, discarded, nsteps, loss_items,
                   mloss, gated, files, saves, iters, raisedAt>>

\* lines 75-78: the loader yields the next batch
FetchBatch ==
    /\ pc = "fetch"
    /\ batch_id + 1 < batch_per_epoch
    /\ batch_id' = batch_id + 1
    /\ num_iter' = NumIter(batch_id + 1, batch_per_epoch, epoch)
    /\ pc' = "warmup"
    /\ UNCHANGED <<cfgVars, lr, epoch, num_warm, accumulate, last_epoch, grad,
                   applied, discarded, nsteps, loss_items, mloss, gated,
                   files, saves, iters, raisedAt>>

\* a loop that saves the checkpoint without the scheduler step before it
BatchesExhaustedToSave ==
    /\ pc = "fetch"
    /\ batch_id + 1 >= batch_per_epoch
    /\ pc' = "save"
    /\ UNCHANGED <<cfgVars, lr, epoch, batch_id, num_iter, num_warm, accumulate,
                   last_epoch, grad, applied, discarded, nsteps, loss_items,
                   mloss, gated, files, saves, iters, raisedAt>>

\* a batch loop that stops one batch early
BatchesExhaustedEarly ==
    /\ pc = "fetch"
    /\ batch_id + 2 >= batch_per_epoch
    /\ pc' = "sched"
    /\ UNCHANGED <<cfgVars, lr, epoch, batch_id, num_iter, num_warm, accumulate,
                   last_epoch, grad, applied, discarded, nsteps, loss_items,
                   mloss, gated, files, saves, iters, raisedAt>>

\* line 75: the loader is exhausted, the batch loop ends
BatchesExhausted ==
    /\ pc = "fetch"
    /\ batch_id + 1 >= batch_per_epoch
    /\ pc' = "sched"
    /\ UNCHANGED <<cfgVars, lr, epoch, batch_id, num_iter, num_warm, accumulate,
                   last_epoch, grad, applied, discarded, nsteps, loss_items,
                   mloss, gated, files, saves, iters, raisedAt>>

\* line 75: the dataset adapter raises while producing the next batch
DatasetRaises ==
    /\ pc = "fetch"
    /\ batch_id + 1 < batch_per_epoch
    /\ raisedAt' = <<epoch, batch_id + 1>>
    /\ pc' = "error"
    /\ UNCHANGED <<cfgVars, lr, epoch, batch_id, num_iter, num_warm, accumulate,
                   last_epoch, grad, applied, discarded, nsteps, loss_items,
                   mloss, gated, files, saves, iters>>

\* lines 81-88: warmup recomputation
Warmup ==
    /\ pc = "warmup"
    /\ accumulate' = IF InWarmup(num_iter, num_warm)
                     THEN AccumulateWarmup(num_iter, num_warm, batch_size)
                     ELSE accumulate
    /\ lr' = IF InWarmup(num_iter, num_warm)
             THEN LrWarmup(num_iter, num_warm, epoch)
             ELSE lr
    /\ pc' = "forward"
    /\ UNCHANGED <<cfgVars, epoch, batch_id, num_iter, num_warm, last_epoch,
                   grad, applied, discarded, nsteps, loss_items, mloss,
                   gated, files, saves, iters, raisedAt>>

\* lines 91-95: forward pass, loss, backward: the batch's gradients are
\* added to .grad
ForwardBackward ==
    /\ pc = "forward"
    /\ \E l \in lossDom : loss_items' = l
    /\ grad' = grad \cup {num_iter}
    /\ pc' = "optimize"
    /\ UNCHANGED <<cfgVars, lr, epoch, batch_id, num_iter, num_warm, accumulate,
                   last_epoch, applied, discarded, nsteps, mloss, gated,
                   files, saves, iters, raisedAt>>

\* a loop that would catch the error and skip the batch
ForwardRaisesSkipped ==
    /\ pc = "forward"
    /\ raisedAt' = <<epoch, batch_id>>
    /\ pc' = "fetch"
    /\ UNCHANGED <<cfgVars, lr, epoch, batch_id, num_iter, num_warm, accumulate,
                   last_epoch, grad, applied, discarded, nsteps, loss_items,
                   mloss, gated, files, saves, iters>>

\* lines 92-93: the model or the loss adapter raises; train() catches nothing
ForwardRaises ==
    /\ pc = "forward"
    /\ raisedAt' = <<epoch, batch_id>>
    /\ pc' = "error"
    /\ UNCHANGED <<cfgVars, lr, epoch, batch_id, num_iter, num_warm, accumulate,
                   last_epoch, grad, applied, discarded, nsteps, loss_items,
                   mloss, gated, files, saves, iters>>

\* a gate that folds every batch's loss into mloss, gated or not
OptimizeMeanAlways ==
    /\ pc = "optimize"
    /\ IF Gate(num_iter, accumulate)
       THEN /\ applied' = applied \cup grad
            /\ nsteps' = nsteps + 1
            /\ grad' = {}
       ELSE UNCHANGED <<applied, nsteps, grad>>
    /\ mloss' = MlossUpdate(mloss, batch_id, loss_items)
    /\ gated' = Append(gated, loss_items)
    /\ iters' = Append(iters, [e |-> epoch, b |-> batch_id, ni |-> num_iter,
                               acc |-> accumulate, pending |-> grad,
                               stepped |-> nsteps' # nsteps,
                               cleared |-> grad' = {}])
    /\ pc' = "fetch"
    /\ UNCHANGED <<cfgVars, lr, epoch, batch_id, num_iter, num_warm, accumulate,
                   last_epoch, discarded, loss_items, files, saves, raisedAt>>

\* lines 98-105: the optimizer gate
Optimize ==
    /\ pc = "optimize"
    /\ IF Gate(num_iter, accumulate)
       THEN /\ applied' = applied \cup grad
            /\ nsteps' = nsteps + 1
            /\ grad' = {}
            /\ mloss' = MlossUpdate(mloss, batch_id, loss_items)
            /\ gated' = Append(gated, loss_items)
       ELSE UNCHANGED <<applied, nsteps, grad, mloss, gated>>
    /\ iters' = Append(iters, [e |-> epoch, b |-> batch_id, ni |-> num_iter,
                               acc |-> accumulate, pending |-> grad,
                               stepped |-> nsteps' # nsteps,
                               cleared |-> grad' = {}])
    /\ pc' = "fetch"
    /\ UNCHANGED <<cfgVars, lr, epoch, batch_id, num_iter, num_warm, accumulate,
                   last_epoch, discarded, loss_items, files, saves, raisedAt>>

\* lines 108-109: scheduler.step()
SchedulerStep ==
    /\ pc = "sched"
    /\ last_epoch' = last_epoch + 1
    /\ lr' = LrScheduled(last_epoch + 1)
    /\ pc' = "save"
    /\ UNCHANGED <<cfgVars, epoch, batch_id, num_iter, num_warm, accumulate,
                   grad, applied, discarded, nsteps, loss_items, mloss,
                   gated, files, saves, iters, raisedAt>>

\* lines 112-116: build the checkpoint and torch.save it
SaveCheckpoint ==
    /\ pc = "save"
    /\ LET path == CkptPath(save_path, epoch)
       IN  /\ files' = [p \in (DOMAIN files) \cup {path} |->
                           IF p = path
                           THEN Ckpt(epoch, total_epochs, nsteps)
                           ELSE files[p]]
           /\ saves' = Append(saves, path)
    /\ pc' = "epoch"
    /\ UNCHANGED <<cfgVars, lr, epoch, batch_id, num_iter, num_warm, accumulate,
                   last_epoch, grad, applied, discarded, nsteps, loss_items,
                   mloss, gated, iters, raisedAt>>

\* lines 118-120: the final log line reads epoch, then empty_cache()
Finalize ==
    /\ pc = "finalize"
    /\ epoch # NoEpoch
    /\ pc' = "done"
    /\ UNCHANGED <<cfgVars, lr, epoch, batch_id, num_iter, num_warm, accumulate,
                   last_epoch, grad, applied, discarded, nsteps, loss_items,
                   mloss, gated, files, saves, iters, raisedAt>>

\* line 118: epoch was never bound (the loop ran zero times): NameError
FinalizeUnbound ==
    /\ pc = "finalize"
    /\ epoch = NoEpoch
    /\ pc' = "error"
    /\ UNCHANGED <<cfgVars, lr, epoch, batch_id, num_iter, num_warm, accumulate,
                   last_epoch, grad, applied, discarded, nsteps, loss_items,
                   mloss, gated, files, saves, iters, raisedAt>>

Next ==
    \/ Setup
    \/ EpochBegin
    \/ EpochsExhausted
    \/ FetchBatch
    \/ BatchesExhausted
    \/ DatasetRaises
    \/ Warmup
    \/ ForwardBackward
    \/ ForwardRaises
    \/ Optimize
    \/ SchedulerStep
    \/ SaveCheckpoint
    \/ Finalize
    \/ FinalizeUnbound

Spec == Init /\ [][Next]_vars

SpecLong == InitLong /\ [][Next]_vars

\* train() runs on one thread that nothing suspends: while a step is possible
\* one is taken
SpecFair == Init /\ [][Next]_vars /\ WF_vars(Next)

\* ---------------------------------------------------------------- claims
InBatchLoop == pc \in {"fetch", "warmup", "forward", "optimize"}

RECURSIVE SumComp(_, _)
SumComp(s, i) == IF s = <<>> THEN 0 ELSE Head(s)[i] + SumComp(Tail(s), i)

\* C1: every batch that reaches the gate has global_step = batch_index +
\* batches_per_epoch * epoch_index, and the optimizer step (with the clearing
\* of the gradients) happens on it if and only if global_step mod the
\* accumulate_every in effect on that iteration is 0.
C1_StepIffGate ==
    \A i \in DOMAIN iters :
        /\ iters[i].ni = iters[i].b + batch_per_epoch * iters[i].e
        /\ iters[i].stepped <=> (iters[i].ni % iters[i].acc = 0)
        /\ iters[i].stepped <=> iters[i].cleared

C1_Witness ==
    /\ \E i \in DOMAIN iters : iters[i].acc > 1 /\ iters[i].stepped
    /\ \E j \in DOMAIN iters : iters[j].acc > 1 /\ ~iters[j].stepped

\* C2: accumulated gradients are never cleared without an optimizer step
\* having applied them, and none are left unapplied when the run is done.
C2_GradientsNeverDiscarded ==
    /\ discarded = {}
    /\ pc = "done" => grad = {}

\* C3: within an epoch, after k >= 1 gated iterations mloss is the arithmetic
\* mean of the k loss vectors of those gated iterations.
C3_RunningLossIsMean ==
    Len(gated) >= 1 =>
        \A i \in 1..NumLoss :
            mloss[i][1] * Len(gated) = SumComp(gated, i) * mloss[i][2]

\* C4: a completed run with total_epochs = N has written exactly N files, the
\* e-th save going to save_path/epoch_e.pt with epoch field e, and no save
\* ever targets a path an earlier save of the run wrote.
C4_OneFilePerEpoch ==
    /\ \A i, j \in DOMAIN saves : i # j => saves[i] # saves[j]
    /\ \A i \in DOMAIN saves :
          /\ saves[i] = "output/epoch_" \o Str(i - 1) \o ".pt"
          /\ saves[i] \in DOMAIN files
          /\ files[saves[i]].epoch = i - 1
    /\ Cardinality(DOMAIN files) = Len(saves)
    /\ pc = "done" => Len(saves) = total_epochs

C4_Witness == pc = "done" /\ Len(saves) >= 3

\* C5: a written checkpoint has no optimizer state if and only if its epoch
\* is the last one; a completed run with total_epochs = 1 has exactly one
\* file, without optimizer state.
C5_OptimizerAbsentIffLast ==
    /\ \A p \in DOMAIN files :
          (files[p].optimizer = "None") <=> (files[p].epoch + 1 = total_epochs)
    /\ (pc = "done" /\ total_epochs = 1) =>
          /\ Cardinality(DOMAIN files) = 1
          /\ \A p \in DOMAIN files : files[p].optimizer = "None"

C5_Witness ==
    /\ pc = "done"
    /\ \E p, q \in DOMAIN files :
          files[p].optimizer = "None" /\ files[q].optimizer = "state"

\* the state a raise on batch b of epoch e leaves: the error state, exactly
\* the batches before b processed, the files of the epochs 0..e-1 and no other
C6_AbortedState ==
    raisedAt # <<>> =>
        /\ pc = "error"
        /\ Len(iters) = raisedAt[1] * batch_per_epoch + raisedAt[2]
        /\ Len(saves) = raisedAt[1]
        /\ \A p \in DOMAIN files : files[p].epoch < raisedAt[1]
        /\ Cardinality(DOMAIN files) = raisedAt[1]

\* C6: once an adapter has raised on batch b of epoch e the run is in its
\* error state and takes no further step (no retry, no skip, nothing written
\* or changed afterwards); exactly the batches before b were processed, no
\* file of epoch e exists and the files are those of the epochs 0..e-1.
C6_RaiseIsFatal ==
    /\ []C6_AbortedState
    /\ [][raisedAt = <<>>]_vars

C6_Witness == raisedAt = <<1, 3>> /\ Cardinality(DOMAIN files) = 1

\* the cursor at each position of train()
C7_CursorState ==
    /\ (InBatchLoop \/ pc = "sched") => last_epoch = epoch - 1
    /\ pc = "save" => last_epoch = epoch
    /\ (pc \in {"epoch", "finalize", "done"} /\ epoch # NoEpoch)
          => last_epoch = epoch
    /\ (pc = "epoch" /\ epoch = NoEpoch) => last_epoch = start_epoch - 1

\* the steps that may change the cursor
C7_CursorStep ==
    /\ pc' # "setup"
    /\ last_epoch' # last_epoch =>
          \/ pc = "setup" /\ last_epoch' = start_epoch - 1
          \/ pc = "sched" /\ last_epoch' = last_epoch + 1

\* C7: the scheduler cursor is set to start_epoch - 1 by the setup and only
\* there, is advanced by exactly one by the scheduler step at the end of an
\* epoch and nowhere else; it is epoch - 1 during the batches of an epoch and
\* epoch once that epoch's scheduler step is done.
C7_SchedulerCursor == []C7_CursorState /\ [][C7_CursorStep]_vars

C7_Witness == pc = "save" /\ epoch >= 1 /\ last_epoch = epoch

\* C8: from its initial computation on, accumulate_every is an integer >= 1,
\* in the variable and on every iteration that used it as a modulus.
C8_AccumulateAtLeastOne ==
    /\ pc # "setup" => (accumulate \in Nat /\ accumulate >= 1)
    /\ \A i \in DOMAIN iters : iters[i].acc \in Nat /\ iters[i].acc >= 1

C8_Witness ==
    /\ batch_size > nbs
    /\ \E i \in DOMAIN iters : iters[i].ni = num_warm

\* non-decreasing over the iterations of the warmup
C9_WarmupMonotone ==
    \A j \in DOMAIN iters :
        (j > 1 /\ iters[j].ni <= num_warm) => iters[j - 1].acc <= iters[j].acc

C10_NominalBatchStepsAlways ==
    batch_size = nbs =>
        \A i \in DOMAIN iters : iters[i].acc = 1 /\ iters[i].stepped

C10_Witness ==
    /\ batch_size = nbs
    /\ \E i \in DOMAIN iters : iters[i].ni < num_warm
    /\ \E j \in DOMAIN iters : iters[j].ni > num_warm

\* C11: global_step is 0 on the first processed batch and grows by exactly 1
\* from each processed batch to the next, across epoch boundaries too; once
\* an iteration is past the warmup no later iteration is a warmup iteration.
C11_GlobalStepCounts ==
    \A j \in DOMAIN iters :
        /\ iters[j].ni = iters[j].b + batch_per_epoch * iters[j].e
        /\ j = 1 => iters[j].ni = 0
        /\ j > 1 => /\ iters[j].ni = iters[j - 1].ni + 1
                    /\ iters[j - 1].ni > num_warm => iters[j].ni > num_warm

C11_Witness ==
    /\ \E i \in DOMAIN iters : iters[i].e >= 1 /\ iters[i].b = 0
    /\ \E j \in DOMAIN iters : iters[j].ni > num_warm + 1

\* C12: a run with non-positive total_epochs or with batch_size above the
\* nominal batch size fails before its first batch is processed and before
\* any checkpoint is written: it never holds a batch, never saves and never
\* completes.
C12_MalformedRejected ==
    (total_epochs <= 0 \/ batch_size > nbs) =>
        /\ pc \notin {"warmup", "forward", "optimize"}
        /\ iters = <<>>
        /\ saves = <<>>
        /\ pc # "done"

\* a batch of epoch e is processed only with the checkpoints of the epochs
\* before e written; a raise leaves the epoch's checkpoint unwritten
C14_SaveOrderState ==
    /\ \A j \in DOMAIN iters : iters[j].e <= Len(saves)
    /\ iters # <<>> =>
          /\ iters[Len(iters)].e >= Len(saves) - 1
          /\ InBatchLoop => iters[Len(iters)].e <= epoch
    /\ InBatchLoop => Len(saves) = epoch

\* the checkpoint of an epoch is written with all batches of that epoch
\* processed and the scheduler already advanced for it; the scheduler
\* advances with all batches of the epoch processed and its file not written
C14_SaveOrderStep ==
    /\ saves' # saves =>
          /\ Len(iters) = (epoch + 1) * batch_per_epoch
          /\ last_epoch = epoch
          /\ Len(saves) = epoch
          /\ files'[saves'[Len(saves')]].epoch = epoch
    /\ last_epoch' = last_epoch + 1 =>
          /\ Len(iters) = (epoch + 1) * batch_per_epoch
          /\ Len(saves) = epoch

\* C14: per epoch the order is batches, then scheduler.step, then the save:
\* the checkpoint of epoch e is written after every batch of epoch e and the
\* scheduler advance for e, and before any batch of epoch e + 1.
C14_SaveOrder == []C14_SaveOrderState /\ [][C14_SaveOrderStep]_vars

C14_Witness ==
    /\ Len(saves) >= 2
    /\ batch_per_epoch >= 2
    /\ iters # <<>> /\ iters[Len(iters)].e = 2

\* the steps that may change mloss
C15_MlossStep ==
    /\ (pc = "epoch" /\ pc' = "fetch") => mloss' = MlossZero
    /\ mloss' # mloss =>
          \/ pc = "epoch"
          \/ pc = "optimize" /\ num_iter % accumulate = 0
    /\ (pc = "optimize" /\ num_iter % accumulate # 0) => mloss' = mloss

\* C15: mloss is the zero vector when an epoch begins, and a step changes it
\* only if it begins an epoch or is a gate step with global_step mod
\* accumulate_every = 0; an iteration that does not trigger the gate leaves
\* it as it was.
C15_MlossFrame == [][C15_MlossStep]_vars

C15_Witness ==
    /\ pc = "fetch"
    /\ iters # <<>>
    /\ ~iters[Len(iters)].stepped
    /\ iters[Len(iters)].e = epoch
    /\ loss_items # <<0, 0, 0, 0>>
    /\ mloss # MlossZero

\* the epochs are passed in order, each batch index once per epoch
C16_EpochsInOrder ==
    \A j \in DOMAIN iters :
        /\ iters[j].e \in 0..(total_epochs - 1)
        /\ iters[j].b \in 0..(batch_per_epoch - 1)
        /\ j > 1 => \/ /\ iters[j].e = iters[j - 1].e
                       /\ iters[j].b = iters[j - 1].b + 1
                    \/ /\ iters[j].e = iters[j - 1].e + 1
                       /\ iters[j].b = 0

\* the run is over: completed with exactly total_epochs * batches_per_epoch
\* batches processed and the last epoch reached, or ended by a raise
C16_Finished ==
    \/ raisedAt # <<>>
    \/ /\ pc = "done"
       /\ Len(iters) = total_epochs * batch_per_epoch
       /\ epoch = total_epochs - 1

\* C16: with total_epochs >= 1 a run in which no adapter raises eventually
\* completes, having processed exactly total_epochs * batches_per_epoch
\* batches through the epochs 0..total_epochs-1 in order, and then takes no
\* further step.
C16_Terminates ==
    /\ []C16_EpochsInOrder
    /\ (total_epochs >= 1) => <>[]C16_Finished
    /\ [][pc # "done"]_vars

C16_Witness ==
    /\ pc = "done"
    /\ total_epochs >= 2
    /\ batch_per_epoch >= 2
    /\ Len(iters) = total_epochs * batch_per_epoch

\* C18: whenever an optimizer step fires, the batches whose gradients have
\* accumulated since the gradients were last cleared (the stepping batch
\* included) number at most the accumulate_every in effect on that iteration.
C18_StepWithinAccumulate ==
    \A j \in DOMAIN iters :
        iters[j].stepped => Cardinality(iters[j].pending) <= iters[j].acc

\* C17: on every iteration past the warmup, in epoch e, the learning rate in
\* effect is initial_lr * lf(e), the rate of the current epoch that the
\* warmup interpolation of that epoch aims at.
C17_SteadyRateOfCurrentEpoch ==
    (pc \in {"forward", "optimize"} /\ num_iter > num_warm) =>
        lr = <<"lf", epoch>>

====
